---- MODULE Spec2Model ----
(***************************************************************************)
(* Hawaii Fisheries Dashboard: the validation-and-cleaning pipeline.       *)
(*                                                                         *)
(* NonCommercialDataCleaner (clean_noncommercial.py) is modelled stage by  *)
(* stage; FisheriesCleaningPipeline (pipeline.py) runs the commercial and  *)
(* the non commercial cleaner one after the other and merges their         *)
(* summaries.                                                              *)
(*                                                                         *)
(* A pandas DataFrame is a record [cols, rows]: the set of column names    *)
(* and the sequence of rows; every row carries its index label idx, which  *)
(* pandas keeps through boolean filtering.  A cell of year/exchange_value  *)
(* is a record [k, v]: k is "int" (an integer), "num" (a float, in whole   *)
(* currency units), "frac" (the float v + 0.5), "text" (a string that is   *)
(* not a number) or "null" (NaN / <NA>).  A categorical cell is a string,  *)
(* NaN the missing one (the source's em dash in the ecosystem names is     *)
(* written "-").  Python's None is the empty sequence and a value that is  *)
(* present is a one-element sequence.                                      *)
(***************************************************************************)
EXTENDS Integers, Sequences, FiniteSets, TLC

\* ---------------------------------------------------------------- bounds
MaxRows == 2
MaxLongRows == 3
MaxRowsRerun == 2
MaxRowsPipeline == 2
MaxRuns == 2
MaxDay == 2
MaxCommercialRows == 3
MaxSpeciesRows == 2

\* ------------------------------------------------------------- utilities
None == <<>>
Some(x) == <<x>>

IntCell(n) == [k |-> "int", v |-> n]
NumCell(n) == [k |-> "num", v |-> n]
FracCell(n) == [k |-> "frac", v |-> n]
TextCell == [k |-> "text", v |-> 0]
NullCell == [k |-> "null", v |-> 0]
NaN == "NaN"

Range(s) == {s[i] : i \in DOMAIN s}

RECURSIVE SumSeq(_)
SumSeq(s) == IF s = <<>> THEN 0 ELSE Head(s) + SumSeq(Tail(s))

SetMin(S) == CHOOSE x \in S : \A y \in S : x <= y
SetMax(S) == CHOOSE x \in S : \A y \in S : x >= y

min(a, b) == IF a <= b THEN a ELSE b
max(a, b) == IF a >= b THEN a ELSE b

\* --------------------------------------------------------------- config
\* Config (the cleaner does not import it: it repeats the values it needs).
NONCOMMERCIAL_MIN_YEAR == 2005
NONCOMMERCIAL_MAX_YEAR == 2022
COMMERCIAL_MIN_YEAR == 1997
COMMERCIAL_MAX_YEAR == 2021

DISPLAY_ONLY_COLUMNS == {"island_olelo", "county_olelo", "exchange_value_formatted"}

\* The schema contract the non commercial cleaner hard-codes in its methods.
NonCommercialContract_with_species_rollup ==
    [ data_type |-> "non_commercial",
      file_kind |-> "noncommercial",
      required_columns |-> {"year", "island", "county", "species_group",
                            "ecosystem_type", "exchange_value"},
      optional_columns |-> {"island_olelo", "county_olelo", "exchange_value_formatted"},
      region |-> "island",
      min_year |-> 2005,
      max_year |-> 2022,
      expected_ecosystems |-> {"Inshore - Reef", "Coastal - Open Ocean", "All Ecosystems"},
      expected_species |-> {"Herbivores"},
      expected_regions |-> {"Hawaii", "Kauai", "Lanai", "Maui", "Molokai", "Oahu"},
      expected_counties |-> {"Hawaii", "Maui", "Honolulu", "Kauai"},
      aggregate_ecosystems |-> {"All Ecosystems"},
      aggregate_species |-> {"All Species"} ]
NonCommercialContract ==
    [ data_type |-> "non_commercial",
      file_kind |-> "noncommercial",
      required_columns |-> {"year", "island", "county", "species_group",
                            "ecosystem_type", "exchange_value"},
      optional_columns |-> {"island_olelo", "county_olelo", "exchange_value_formatted"},
      region |-> "island",
      min_year |-> 2005,
      max_year |-> 2022,
      expected_ecosystems |-> {"Inshore - Reef", "Coastal - Open Ocean", "All Ecosystems"},
      expected_species |-> {"Herbivores"},
      expected_regions |-> {"Hawaii", "Kauai", "Lanai", "Maui", "Molokai", "Oahu"},
      expected_counties |-> {"Hawaii", "Maui", "Honolulu", "Kauai"},
      aggregate_ecosystems |-> {"All Ecosystems"},
      aggregate_species |-> {} ]

\* The commercial contract, from Config: area_id replaces island, the year
\* bounds are 1997..2021 and "All Species" is an aggregate species group.
CommercialContract ==
    [ data_type |-> "commercial",
      file_kind |-> "commercial",
      required_columns |-> {"year", "area_id", "county", "species_group",
                            "ecosystem_type", "exchange_value"},
      optional_columns |-> DISPLAY_ONLY_COLUMNS,
      region |-> "area_id",
      min_year |-> COMMERCIAL_MIN_YEAR,
      max_year |-> COMMERCIAL_MAX_YEAR,
      expected_ecosystems |-> {"Inshore - Reef", "Coastal - Open Ocean", "All Ecosystems"},
      expected_species |-> {"Deep 7 Bottomfish", "Shallow Bottomfish", "Pelagics",
                            "Reef-Associated", "All Species"},
      expected_regions |-> {},
      expected_counties |-> {"Hawaii", "Maui", "Honolulu", "Kauai", "Kalawao"},
      aggregate_ecosystems |-> {"All Ecosystems"},
      aggregate_species |-> {"All Species"} ]

\* ------------------------------------------------------ pandas primitives
\* pd.to_numeric(errors='coerce') on one cell: a number stays, anything
\* that does not parse becomes NaN.
to_numeric(cell) == IF cell.k \in {"int", "num", "frac"} THEN cell ELSE NullCell

\* .astype('Int64') on one float cell: an integral value becomes the
\* integer, NaN becomes <NA>; a fractional value has no safe cast.
astypeInt64Raises(cell) == cell.k = "frac"
astypeInt64(cell) == IF cell.k \in {"int", "num"} THEN IntCell(cell.v) ELSE NullCell

notna(cell) == cell.k # "null"
isNumber(cell) == cell.k \in {"int", "num"}

\* Series.unique() of a categorical column.
unique(rows, col) == {rows[i][col] : i \in DOMAIN rows}

\* sorted() of a list of categorical values: comparing NaN (a float) with a
\* str raises TypeError; a list of strings only, or of one NaN, sorts.
sortedRaises(S) == NaN \in S /\ S # {NaN}

\* ------------------------------------------------------------ the stages
\* loadData: the first file matching the primary pattern, else the first
\* matching the fallback pattern; None when there is none or read_csv
\* raises (the except branch).  A file is [ok, table]: ok is whether
\* read_csv parses it.
loadData_empty_on_error(dir) ==
    LET files == IF dir.primary # <<>> THEN dir.primary ELSE dir.fallback
    IN  IF files = <<>> THEN None
        ELSE Some(Head(files).table)
loadData(dir) ==
    LET files == IF dir.primary # <<>> THEN dir.primary ELSE dir.fallback
    IN  IF files = <<>> THEN None
        ELSE IF ~Head(files).ok THEN None
        ELSE Some(Head(files).table)

\* validateSchema: every required column is among the table's columns.
validateSchema_ignoring_island(c, cols) ==
    (c.required_columns \ {c.region}) \subseteq cols
validateSchema(c, cols) ==
    LET missing_required == {col \in c.required_columns : col \notin cols}
    IN  missing_required = {}

\* validateDataTypes: year to nullable integer, exchange_value to numeric.
validateDataTypesRaises(rows) ==
    \E i \in DOMAIN rows : astypeInt64Raises(to_numeric(rows[i].year))
validateDataTypes_dropping_null_years(rows) ==
    SelectSeq([i \in DOMAIN rows |->
                  [rows[i] EXCEPT !.year = astypeInt64(to_numeric(@)),
                                  !.exchange_value = to_numeric(@)]],
              LAMBDA r : notna(r.year))
validateDataTypes_doubling_values(rows) ==
    [i \in DOMAIN rows |->
        [rows[i] EXCEPT !.year = astypeInt64(to_numeric(@)),
                        !.exchange_value = [to_numeric(@) EXCEPT !.v = 2 * @]]]
validateDataTypes(rows) ==
    [i \in DOMAIN rows |->
        [rows[i] EXCEPT !.year = astypeInt64(to_numeric(@)),
                        !.exchange_value = to_numeric(@)]]

\* validateDataRanges: the issue list, the return value and self.data as
\* the method leaves it.  Comparisons with NaN / <NA> are false (skipped by
\* any()).
negative(cell) == isNumber(cell) /\ cell.v < 0
outOfRange_exclusive(c, cell) ==
    isNumber(cell) /\ (cell.v <= c.min_year \/ cell.v >= c.max_year)
outOfRange(c, cell) == isNumber(cell) /\ (cell.v < c.min_year \/ cell.v > c.max_year)
validateDataRanges_dropping(c, rows) ==
    [ ret |-> TRUE,
      issues |-> <<>>,
      rows |-> SelectSeq(rows, LAMBDA r : ~negative(r.exchange_value)
                                          /\ ~outOfRange(c, r.year)) ]
validateDataRanges(c, rows) ==
    LET negative_count == Cardinality({i \in DOMAIN rows : negative(rows[i].exchange_value)})
        invalid_years == {rows[i].year.v : i \in {j \in DOMAIN rows : outOfRange(c, rows[j].year)}}
        neg == IF negative_count > 0
               THEN <<[issue |-> "negative exchange values", n |-> negative_count, years |-> {}]>>
               ELSE <<>>
        yrs == IF invalid_years # {}
               THEN <<[issue |-> "years outside expected range", n |-> 0, years |-> invalid_years]>>
               ELSE <<>>
    IN  [ ret |-> TRUE, issues |-> neg \o yrs, rows |-> rows ]

\* validateEcosystemTypes / validateSpeciesGroups / validateIslands /
\* validateCounties: the unexpected values that are logged.
unexpected(rows, col, expected) == {x \in unique(rows, col) : x \notin expected}

\* removeNullValues: keep the rows whose exchange_value is not NaN.
removeNullValues_keeping_all(rows) == rows
removeNullValues(rows) == SelectSeq(rows, LAMBDA r : notna(r.exchange_value))

\* removeAggregateRows: with the flag, drop the rollup rows.
removeAggregateRows_ignoring_flag(c, rows, remove_aggregates) ==
    SelectSeq(rows, LAMBDA r : r.ecosystem_type \notin c.aggregate_ecosystems
                               /\ r.species_group \notin c.aggregate_species)
removeAggregateRows_keeping_all(c, rows, remove_aggregates) == rows
removeAggregateRows(c, rows, remove_aggregates) ==
    IF ~remove_aggregates THEN rows
    ELSE SelectSeq(rows, LAMBDA r : r.ecosystem_type \notin c.aggregate_ecosystems
                                    /\ r.species_group \notin c.aggregate_species)

\* removeDisplayColumns: with the flag, drop the display columns present.
removeDisplayColumns(c, cols, remove_display) ==
    IF ~remove_display THEN cols
    ELSE LET columns_to_drop == {col \in c.optional_columns : col \in cols}
         IN  cols \ columns_to_drop

\* generateSummaryStatistics.  int(<NA>) raises TypeError when the table has
\* no non-null year (Series.min() skips <NA>; of nothing it is <NA>), and
\* sorted() raises on a column mixing NaN with strings.
yearsOf(rows) == {rows[i].year.v : i \in {j \in DOMAIN rows : isNumber(rows[j].year)}}
valueOf(cell) == IF isNumber(cell) THEN cell.v ELSE 0
generateSummaryStatisticsRaises(c, rows) ==
    \/ yearsOf(rows) = {}
    \/ \E col \in {c.region, "county", "species_group", "ecosystem_type"} :
          sortedRaises(unique(rows, col))
generateSummaryStatistics_counting_years(c, raw_rows, rows) ==
    [ data_type |-> c.data_type,
      raw_row_count |-> raw_rows,
      cleaned_row_count |-> Cardinality({i \in DOMAIN rows : isNumber(rows[i].year)}),
      rows_removed |-> raw_rows - Cardinality({i \in DOMAIN rows : isNumber(rows[i].year)}),
      date_range |-> [min_year |-> SetMin(yearsOf(rows)), max_year |-> SetMax(yearsOf(rows))],
      total_exchange_value |-> SumSeq([i \in DOMAIN rows |-> valueOf(rows[i].exchange_value)]),
      unique_regions |-> unique(rows, c.region),
      unique_counties |-> unique(rows, "county"),
      unique_species_groups |-> unique(rows, "species_group"),
      unique_ecosystem_types |-> unique(rows, "ecosystem_type"),
      records_by_year |-> [y \in yearsOf(rows) |->
                              Cardinality({i \in DOMAIN rows : rows[i].year = IntCell(y)})] ]
generateSummaryStatistics(c, raw_rows, rows) ==
    [ data_type |-> c.data_type,
      raw_row_count |-> raw_rows,
      cleaned_row_count |-> Len(rows),
      rows_removed |-> raw_rows - Len(rows),
      date_range |-> [min_year |-> SetMin(yearsOf(rows)), max_year |-> SetMax(yearsOf(rows))],
      total_exchange_value |-> SumSeq([i \in DOMAIN rows |-> valueOf(rows[i].exchange_value)]),
      unique_regions |-> unique(rows, c.region),
      unique_counties |-> unique(rows, "county"),
      unique_species_groups |-> unique(rows, "species_group"),
      unique_ecosystem_types |-> unique(rows, "ecosystem_type"),
      records_by_year |-> [y \in yearsOf(rows) |->
                              Cardinality({i \in DOMAIN rows : rows[i].year = IntCell(y)})] ]

\* exportCleanedData: the path is the dataset kind and the day; to_csv writes
\* the rows without their index labels.
outputPath_undated(c, day) == <<c.file_kind, 1>>
outputPath(c, day) == <<c.file_kind, day>>
to_csv(table) ==
    [ cols |-> table.cols,
      rows |-> [i \in DOMAIN table.rows |->
                   [f \in (DOMAIN table.rows[i]) \ {"idx"} |-> table.rows[i][f]]] ]

\* ------------------------------------------------- runCleaningPipeline
\* The whole of runCleaningPipeline as one call on the cleaner self =
\* [data, raw_row_count, cleaned_row_count], reading the input directory
\* dir and writing to the output directory fs on day `day`: the cleaner and
\* the output directory as the call leaves them, whether an exception
\* escaped, and the tuple returned otherwise.
Failure == [success |-> FALSE, output_file |-> None, summary |-> None]
Success(output_file, summary) ==
    [success |-> TRUE, output_file |-> Some(output_file), summary |-> Some(summary)]

RunCleaningPipeline(c, self, dir, remove_aggregates, remove_display, fs, day) ==
    LET l == loadData(dir) IN
    IF l = None
    THEN [self |-> self, files |-> fs, raised |-> FALSE, ret |-> Some(Failure)]
    ELSE
    LET t0 == l[1]
        s1 == [self EXCEPT !.data = l, !.raw_row_count = Len(t0.rows)]
    IN
    IF ~validateSchema(c, t0.cols)
    THEN [self |-> s1, files |-> fs, raised |-> FALSE, ret |-> Some(Failure)]
    ELSE IF validateDataTypesRaises(t0.rows)
    THEN [self |-> s1, files |-> fs, raised |-> TRUE, ret |-> None]
    ELSE
    LET r1 == validateDataTypes(t0.rows)
        r2 == validateDataRanges(c, r1).rows
        r3 == removeNullValues(r2)
        r4 == removeAggregateRows(c, r3, remove_aggregates)
        t5 == [cols |-> removeDisplayColumns(c, t0.cols, remove_display), rows |-> r4]
        output_file == outputPath(c, day)
        fs5 == [fs EXCEPT ![output_file] = Some(to_csv(t5))]
        s5 == [data |-> Some(t5), raw_row_count |-> s1.raw_row_count,
               cleaned_row_count |-> Len(r4)]
    IN
    IF generateSummaryStatisticsRaises(c, r4)
    THEN [self |-> s5, files |-> fs5, raised |-> TRUE, ret |-> None]
    ELSE [self |-> s5, files |-> fs5, raised |-> FALSE,
          ret |-> Some(Success(output_file,
                               generateSummaryStatistics(c, s5.raw_row_count, r4)))]

\* ------------------------------------------------------------ the inputs
FileKinds == {"commercial", "noncommercial", "cleaning_summary", "dashboard"}
Days == 1..MaxDay
Paths == FileKinds \X Days
NoFiles == [p \in Paths |-> None]

\* The tables of at most n rows drawn from the row set R, indexed 0, 1, ...
\* as read_csv indexes them, with exactly the modelled columns of cols.
Frame(f, cols) ==
    [i \in DOMAIN f |->
        [col \in ((DOMAIN f[i]) \cap cols) \cup {"idx"} |->
            IF col = "idx" THEN i - 1 ELSE f[i][col]]]
Table(f, cols) == [cols |-> cols, rows |-> Frame(f, cols)]
RowSeqs(R, n) == UNION {[1..k -> R] : k \in 0..n}

EmptyTable == [cols |-> {}, rows |-> <<>>]
NoInput == [primary |-> <<>>, fallback |-> <<>>]
Unparsable == [primary |-> <<[ok |-> FALSE, table |-> EmptyTable]>>, fallback |-> <<>>]
Primary(t) == [primary |-> <<[ok |-> TRUE, table |-> t]>>, fallback |-> <<>>]
Fallback(t) == [primary |-> <<>>, fallback |-> <<[ok |-> TRUE, table |-> t]>>]

\* Rows of a single run of the non commercial cleaner: years below and
\* inside the valid range, a year that does not parse, a fractional year;
\* a negative, a positive and an unparsable exchange value; a rollup and a
\* specific ecosystem type.
RichRows ==
    [ year : {IntCell(2004), IntCell(2022), TextCell, FracCell(2005)},
      exchange_value : {NumCell(-1), NumCell(2), TextCell},
      ecosystem_type : {"All Ecosystems", "Inshore - Reef"},
      island : {"Oahu"},
      county : {"Honolulu"},
      species_group : {"Herbivores"} ]

\* Rows of the longer tables of a single run: enough rows for a null and a
\* rollup row to be removed and a row to be left.
LongRows ==
    [ year : {IntCell(2022), TextCell},
      exchange_value : {NumCell(2), TextCell},
      ecosystem_type : {"All Ecosystems", "Inshore - Reef"},
      island : {"Oahu"},
      county : {"Honolulu"},
      species_group : {"Herbivores"} ]

\* Rows of the runs where only row counts and totals matter.
SmallRows(c) ==
    {[col \in c.required_columns |-> IF col = c.region THEN r.region ELSE r[col]] :
        r \in [ year : {IntCell(2004), IntCell(2022), TextCell},
                exchange_value : {NumCell(2), TextCell},
                ecosystem_type : {"Inshore - Reef"},
                region : {IF c.region = "island" THEN "Oahu" ELSE "A100"},
                county : {"Honolulu"},
                species_group : {IF c.region = "island" THEN "Herbivores" ELSE "Pelagics"} ]}

\* Column sets that lack one required column, with or without display columns.
LackingColumns(c) ==
    {(c.required_columns \ {col}) \cup opt :
        col \in c.required_columns, opt \in {{}, c.optional_columns}}
CompleteColumns(c) == {c.required_columns, c.required_columns \cup c.optional_columns}

\* Rows of the repeated runs: only the number of rows kept matters.
RerunRows ==
    [ year : {IntCell(2022)},
      exchange_value : {NumCell(2), TextCell},
      ecosystem_type : {"Inshore - Reef"},
      island : {"Oahu"},
      county : {"Honolulu"},
      species_group : {"Herbivores"} ]

\* Rows of the runs about the categorical columns: a row of expected values
\* and rows that differ from it by a value outside the expected vocabulary, a
\* missing value, an exchange value that does not parse or a rollup.
ExpectedRow ==
    [ year |-> IntCell(2022),
      exchange_value |-> NumCell(2),
      ecosystem_type |-> "Inshore - Reef",
      island |-> "Oahu",
      county |-> "Honolulu",
      species_group |-> "Herbivores" ]
CategoricalRows ==
    { ExpectedRow,
      [ExpectedRow EXCEPT !.island = "Niihau"],
      [ExpectedRow EXCEPT !.island = NaN],
      [ExpectedRow EXCEPT !.species_group = "Sharks"],
      [ExpectedRow EXCEPT !.ecosystem_type = "Deep Sea"],
      [ExpectedRow EXCEPT !.county = "Kalawao"],
      [ExpectedRow EXCEPT !.island = "Niihau", !.exchange_value = TextCell],
      [ExpectedRow EXCEPT !.island = "Niihau", !.ecosystem_type = "All Ecosystems"] }

\* Rows of the runs about the range checks: years at and next to the bounds
\* and a year that does not parse; a negative, a zero and a positive value.
RangeRows ==
    { [ExpectedRow EXCEPT !.year = y, !.exchange_value = v] :
        y \in { IntCell(NONCOMMERCIAL_MIN_YEAR - 1), IntCell(NONCOMMERCIAL_MIN_YEAR),
                IntCell(NONCOMMERCIAL_MAX_YEAR), IntCell(NONCOMMERCIAL_MAX_YEAR + 1),
                TextCell },
        v \in { NumCell(-1), NumCell(0), NumCell(2) } }

\* Rows of the runs about rollup rows: commercial rows with an exchange
\* value that does not parse, an "All Species" or an "All Ecosystems"
\* rollup, and non commercial rows with and without "All Species".
CommercialRow ==
    [ year |-> IntCell(2021),
      exchange_value |-> NumCell(2),
      ecosystem_type |-> "Inshore - Reef",
      area_id |-> "A100",
      county |-> "Honolulu",
      species_group |-> "Pelagics" ]
CommercialRows ==
    { CommercialRow,
      [CommercialRow EXCEPT !.exchange_value = TextCell],
      [CommercialRow EXCEPT !.species_group = "All Species"],
      [CommercialRow EXCEPT !.species_group = "All Species", !.exchange_value = TextCell],
      [CommercialRow EXCEPT !.ecosystem_type = "All Ecosystems"],
      [CommercialRow EXCEPT !.ecosystem_type = "All Ecosystems",
                            !.species_group = "All Species"] }
SpeciesRows ==
    { ExpectedRow, [ExpectedRow EXCEPT !.species_group = "All Species"] }

FailingInputs(c) ==
    {NoInput, Unparsable}
    \cup {Primary(Table(f, c.required_columns \ {"county"})) : f \in RowSeqs(SmallRows(c), 1)}

\* What the input directory holds when it holds no readable table, a table
\* found by the fallback pattern only, or a table lacking a required column.
OtherInputs(c) ==
    {NoInput, Unparsable}
    \cup {Fallback(Table(f, c.required_columns)) : f \in RowSeqs(SmallRows(c), 1)}
    \cup {Primary(Table(f, cols)) : f \in RowSeqs(SmallRows(c), 1), cols \in LackingColumns(c)}

\* ------------------------------------------------------------- the state
VARIABLES
    \* NonCommercialDataCleaner
    data, raw_row_count, cleaned_row_count,
    \* the call of runCleaningPipeline in progress: its position, its
    \* parameters and what it returned
    pc, remove_aggregates, remove_display, ret,
    \* the output directory and the calendar day
    files, today,
    \* the number of calls of runCleaningPipeline made on the cleaner
    run,
    \* what the call in progress has read, logged and run so far
    input, loaded, null_removed, aggregates_removed, issues, ranges_ret,
    warnings, stages,
    \* FisheriesCleaningPipeline: the position of runFullPipeline, its
    \* parameters, results, the commercial cleaner, the two outcomes, the
    \* value returned, and what generateCombinedSummary produced
    ppc, policy, results, commercial_cleaner, comm_success, noncomm_success,
    overall_success, combined, combined_error,
    \* how pipeline.py was entered, the arguments of the commercial cleaner's
    \* call, and what DashboardGenerator.generate read and returned
    entry, commercial_call, dashboard

cleaner == <<data, raw_row_count, cleaned_row_count>>
frame == <<pc, remove_aggregates, remove_display, ret>>
history == <<input, loaded, null_removed, aggregates_removed, issues, ranges_ret,
             warnings, stages>>
module == <<entry, commercial_call, dashboard>>
orchestrator == <<ppc, policy, results, commercial_cleaner, comm_success,
                  noncomm_success, overall_success, combined, combined_error, module>>
vars == <<cleaner, frame, files, today, run, history, orchestrator>>

C == NonCommercialContract

NewCleaner == [data |-> None, raw_row_count |-> 0, cleaned_row_count |-> 0]

\* The state after both constructors.
Init ==
    /\ data = None
    /\ raw_row_count = 0
    /\ cleaned_row_count = 0
    /\ pc = "idle"
    /\ remove_aggregates = TRUE
    /\ remove_display = FALSE
    /\ ret = None
    /\ files = NoFiles
    /\ today = 1
    /\ run = 0
    /\ input = NoInput
    /\ loaded = None
    /\ null_removed = None
    /\ aggregates_removed = None
    /\ issues = <<>>
    /\ ranges_ret = None
    /\ warnings = {}
    /\ stages = <<>>
    /\ ppc = "idle"
    /\ policy = [remove_aggregates |-> TRUE, remove_display |-> FALSE]
    /\ results = [commercial |-> None, non_commercial |-> None]
    /\ commercial_cleaner = NewCleaner
    /\ comm_success = None
    /\ noncomm_success = None
    /\ overall_success = None
    /\ combined = None
    /\ combined_error = "none"
    /\ entry = "none"
    /\ commercial_call = None
    /\ dashboard = None

\* ---------------------------------- NonCommercialDataCleaner, by stage
Goto(from, to) ==
    /\ pc = from
    /\ pc' = to
    /\ stages' = Append(stages, from)

\* runCleaningPipeline(remove_aggregates, remove_display) is called.
Call(ra, rd) ==
    /\ pc' = "loadData"
    /\ remove_aggregates' = ra
    /\ remove_display' = rd
    /\ ret' = None
    /\ run' = run + 1
    /\ input' = NoInput
    /\ loaded' = None
    /\ null_removed' = None
    /\ aggregates_removed' = None
    /\ issues' = <<>>
    /\ ranges_ret' = None
    /\ warnings' = {}
    /\ stages' = <<>>
    /\ UNCHANGED <<cleaner, files, today, orchestrator>>

RunCleaningPipelineCall ==
    /\ pc = "idle"
    /\ \E ra \in BOOLEAN, rd \in BOOLEAN : Call(ra, rd)

\* The same cleaner is run, and run again after a call has returned or raised.
RunCleaningPipelineAgain ==
    /\ pc \in {"idle", "returned", "raised"}
    /\ run < MaxRuns
    /\ \E ra \in BOOLEAN : Call(ra, FALSE)

LoadData(dir) ==
    /\ pc = "loadData"
    /\ stages' = Append(stages, "loadData")
    /\ input' = dir
    /\ LET l == loadData(dir) IN
        IF l = None
        THEN /\ pc' = "returned"
             /\ ret' = Some(Failure)
             /\ UNCHANGED <<data, raw_row_count, loaded>>
        ELSE /\ pc' = "validateSchema"
             /\ data' = l
             /\ raw_row_count' = Len(l[1].rows)
             /\ loaded' = l
             /\ UNCHANGED ret
    /\ UNCHANGED <<cleaned_row_count, remove_aggregates, remove_display, files, today, run,
                   null_removed, aggregates_removed, issues, ranges_ret, warnings,
                   orchestrator>>

\* The input directory as the call finds it.
LoadRichTable ==
    /\ pc = "loadData"
    /\ \E n \in 0..MaxRows : \E f \in [1..n -> RichRows] : \E cols \in CompleteColumns(C) :
          LoadData(Primary(Table(f, cols)))
LoadLongTable ==
    /\ pc = "loadData"
    /\ \E n \in 0..MaxLongRows : \E f \in [1..n -> LongRows] :
          LoadData(Primary(Table(f, C.required_columns)))
LoadCategoricalTable ==
    /\ pc = "loadData"
    /\ \E n \in 0..MaxRows : \E f \in [1..n -> CategoricalRows] :
          LoadData(Primary(Table(f, C.required_columns)))
LoadRangeTable ==
    /\ pc = "loadData"
    /\ \E n \in 0..MaxRows : \E f \in [1..n -> RangeRows] :
          LoadData(Primary(Table(f, C.required_columns)))
LoadSmallTable ==
    /\ pc = "loadData"
    /\ \E n \in 0..MaxRowsRerun : \E f \in [1..n -> RerunRows] :
          LoadData(Primary(Table(f, C.required_columns)))
LoadOther ==
    /\ pc = "loadData"
    /\ \E dir \in OtherInputs(C) : LoadData(dir)
LoadFailing ==
    /\ pc = "loadData"
    /\ \E dir \in FailingInputs(C) : LoadData(dir)

ValidateSchema ==
    /\ pc = "validateSchema"
    /\ stages' = Append(stages, "validateSchema")
    /\ IF validateSchema(C, data[1].cols)
       THEN pc' = "validateDataTypes" /\ UNCHANGED ret
       ELSE pc' = "returned" /\ ret' = Some(Failure)
    /\ UNCHANGED <<cleaner, remove_aggregates, remove_display, files, today, run, input,
                   loaded, null_removed, aggregates_removed, issues, ranges_ret, warnings,
                   orchestrator>>

ValidateDataTypes ==
    /\ pc = "validateDataTypes"
    /\ stages' = Append(stages, "validateDataTypes")
    /\ IF validateDataTypesRaises(data[1].rows)
       THEN /\ pc' = "raised"
            /\ UNCHANGED <<data, warnings>>
       ELSE LET rows == validateDataTypes(data[1].rows)
                null_years == Cardinality({i \in DOMAIN rows : ~notna(rows[i].year)})
                null_values == Cardinality({i \in DOMAIN rows : ~notna(rows[i].exchange_value)})
            IN  /\ pc' = "validateDataRanges"
                /\ data' = Some([data[1] EXCEPT !.rows = rows])
                /\ warnings' = warnings
                      \cup (IF null_years > 0 THEN {<<"null years", {}>>} ELSE {})
                      \cup (IF null_values > 0 THEN {<<"null exchange values", {}>>} ELSE {})
    /\ UNCHANGED <<raw_row_count, cleaned_row_count, remove_aggregates, remove_display, ret,
                   files, today, run, input, loaded, null_removed, aggregates_removed,
                   issues, ranges_ret, orchestrator>>

ValidateDataRanges ==
    /\ Goto("validateDataRanges", "validateEcosystemTypes")
    /\ LET r == validateDataRanges(C, data[1].rows) IN
        /\ data' = Some([data[1] EXCEPT !.rows = r.rows])
        /\ issues' = r.issues
        /\ ranges_ret' = Some(r.ret)
    /\ UNCHANGED <<raw_row_count, cleaned_row_count, remove_aggregates, remove_display, ret,
                   files, today, run, input, loaded, null_removed, aggregates_removed,
                   warnings, orchestrator>>

\* One of the four categorical validators: it logs the unexpected values.
ValidateCategorical(stage, next, col, expected) ==
    /\ Goto(stage, next)
    /\ LET u == unexpected(data[1].rows, col, expected) IN
        warnings' = warnings \cup (IF u # {} THEN {<<col, u>>} ELSE {})
    /\ UNCHANGED <<cleaner, remove_aggregates, remove_display, ret, files, today, run,
                   input, loaded, null_removed, aggregates_removed, issues, ranges_ret,
                   orchestrator>>

ValidateEcosystemTypes ==
    ValidateCategorical("validateEcosystemTypes", "validateSpeciesGroups",
                        "ecosystem_type", C.expected_ecosystems)
ValidateSpeciesGroups ==
    ValidateCategorical("validateSpeciesGroups", "validateIslands",
                        "species_group", C.expected_species)
ValidateIslands ==
    ValidateCategorical("validateIslands", "validateCounties", "island", C.expected_regions)
ValidateCounties ==
    ValidateCategorical("validateCounties", "removeNullValues", "county", C.expected_counties)

RemoveNullValues ==
    /\ Goto("removeNullValues", "removeAggregateRows")
    /\ LET before_count == Len(data[1].rows)
           rows == removeNullValues(data[1].rows)
           after_count == Len(rows)
       IN  /\ data' = Some([data[1] EXCEPT !.rows = rows])
           /\ null_removed' = Some(before_count - after_count)
    /\ UNCHANGED <<raw_row_count, cleaned_row_count, remove_aggregates, remove_display, ret,
                   files, today, run, input, loaded, aggregates_removed, issues, ranges_ret,
                   warnings, orchestrator>>

RemoveAggregateRows ==
    /\ Goto("removeAggregateRows", "removeDisplayColumns")
    /\ LET before_count == Len(data[1].rows)
           rows == removeAggregateRows(C, data[1].rows, remove_aggregates)
           after_count == Len(rows)
       IN  /\ data' = Some([data[1] EXCEPT !.rows = rows])
           /\ aggregates_removed' =
                 IF remove_aggregates THEN Some(before_count - after_count) ELSE None
    /\ UNCHANGED <<raw_row_count, cleaned_row_count, remove_aggregates, remove_display, ret,
                   files, today, run, input, loaded, null_removed, issues, ranges_ret,
                   warnings, orchestrator>>

RemoveDisplayColumns_then_summarize ==
    /\ Goto("removeDisplayColumns", "generateSummaryStatistics")
    /\ data' = Some([data[1] EXCEPT !.cols = removeDisplayColumns(C, @, remove_display)])
    /\ UNCHANGED <<raw_row_count, cleaned_row_count, remove_aggregates, remove_display, ret,
                   files, today, run, input, loaded, null_removed, aggregates_removed,
                   issues, ranges_ret, warnings, orchestrator>>
RemoveDisplayColumns ==
    /\ Goto("removeDisplayColumns", "exportCleanedData")
    /\ data' = Some([data[1] EXCEPT !.cols = removeDisplayColumns(C, @, remove_display)])
    /\ UNCHANGED <<raw_row_count, cleaned_row_count, remove_aggregates, remove_display, ret,
                   files, today, run, input, loaded, null_removed, aggregates_removed,
                   issues, ranges_ret, warnings, orchestrator>>

ExportCleanedData_keeping_existing ==
    /\ Goto("exportCleanedData", "generateSummaryStatistics")
    /\ files' = IF files[outputPath(C, today)] = None
                THEN [files EXCEPT ![outputPath(C, today)] = Some(to_csv(data[1]))]
                ELSE files
    /\ cleaned_row_count' = Len(data[1].rows)
    /\ UNCHANGED <<data, raw_row_count, remove_aggregates, remove_display, ret, today, run,
                   input, loaded, null_removed, aggregates_removed, issues, ranges_ret,
                   warnings, orchestrator>>
ExportCleanedData ==
    /\ Goto("exportCleanedData", "generateSummaryStatistics")
    /\ files' = [files EXCEPT ![outputPath(C, today)] = Some(to_csv(data[1]))]
    /\ cleaned_row_count' = Len(data[1].rows)
    /\ UNCHANGED <<data, raw_row_count, remove_aggregates, remove_display, ret, today, run,
                   input, loaded, null_removed, aggregates_removed, issues, ranges_ret,
                   warnings, orchestrator>>

\* generateSummaryStatistics and the return of (True, output_file, summary);
\* output_file is the path exportCleanedData returned.
GenerateSummaryStatistics ==
    /\ pc = "generateSummaryStatistics"
    /\ stages' = Append(stages, "generateSummaryStatistics")
    /\ IF generateSummaryStatisticsRaises(C, data[1].rows)
       THEN pc' = "raised" /\ UNCHANGED ret
       ELSE /\ pc' = "returned"
            /\ ret' = Some(Success(outputPath(C, today),
                                   generateSummaryStatistics(C, raw_row_count, data[1].rows)))
    /\ UNCHANGED <<cleaner, remove_aggregates, remove_display, files, today, run, input,
                   loaded, null_removed, aggregates_removed, issues, ranges_ret, warnings,
                   orchestrator>>

\* Midnight passes between two calls.
Tick ==
    /\ pc \in {"returned", "raised"}
    /\ today < MaxDay
    /\ today' = today + 1
    /\ UNCHANGED <<cleaner, frame, files, run, history, orchestrator>>

Stages ==
    \/ ValidateSchema
    \/ ValidateDataTypes
    \/ ValidateDataRanges
    \/ ValidateEcosystemTypes
    \/ ValidateSpeciesGroups
    \/ ValidateIslands
    \/ ValidateCounties
    \/ RemoveNullValues
    \/ RemoveAggregateRows
    \/ RemoveDisplayColumns
    \/ ExportCleanedData
    \/ GenerateSummaryStatistics

\* One call of runCleaningPipeline on a new cleaner.
Next ==
    \/ RunCleaningPipelineCall
    \/ LoadRichTable
    \/ LoadLongTable
    \/ LoadCategoricalTable
    \/ LoadRangeTable
    \/ LoadOther
    \/ Stages

Spec == Init /\ [][Next]_vars

\* Calls of runCleaningPipeline one after the other on the same cleaner.
NextRerun ==
    \/ RunCleaningPipelineAgain
    \/ LoadSmallTable
    \/ LoadFailing
    \/ Stages
    \/ Tick

SpecRerun == Init /\ [][NextRerun]_vars

\* --------------------------------------------- FisheriesCleaningPipeline
\* CommercialDataCleaner.runCleaningPipeline: the same stages under the
\* commercial contract.
CommercialRunCleaningPipeline(self, dir, ra, rd, fs, day) ==
    RunCleaningPipeline(CommercialContract, self, dir, ra, rd, fs, day)

NoncommercialRunCleaningPipeline(self, dir, ra, rd, fs, day) ==
    RunCleaningPipeline(NonCommercialContract, self, dir, ra, rd, fs, day)

\* The record runCommercialCleaning / runNoncommercialCleaning stores in
\* results for the tuple the cleaner returned.
resultRecord(r, error) ==
    IF r.success
    THEN Some([success |-> TRUE, output_file |-> r.output_file[1], summary |-> r.summary[1]])
    ELSE Some([success |-> FALSE, error |-> error])

\* Python's truth value of results[k]: None is false, a non-empty dict true.
truthy(r) == r # None
hasKey(r, key) == key \in DOMAIN r[1]

\* generateCombinedSummary: results[k]['summary'] raises KeyError when the
\* record of k is the failure record, which has no 'summary' key.
generateCombinedSummaryRaises(res) ==
    \E k \in {"commercial", "non_commercial"} : truthy(res[k]) /\ ~hasKey(res[k], "summary")
overall_max_of_min(res) ==
    LET comm == res.commercial[1].summary
        noncomm == res.non_commercial[1].summary
    IN  [ total_records |-> comm.cleaned_row_count + noncomm.cleaned_row_count,
          total_exchange_value |-> comm.total_exchange_value + noncomm.total_exchange_value,
          combined_date_range |->
              [ min_year |-> max(comm.date_range.min_year, noncomm.date_range.min_year),
                max_year |-> max(comm.date_range.max_year, noncomm.date_range.max_year) ] ]
overall(res) ==
    LET comm == res.commercial[1].summary
        noncomm == res.non_commercial[1].summary
    IN  [ total_records |-> comm.cleaned_row_count + noncomm.cleaned_row_count,
          total_exchange_value |-> comm.total_exchange_value + noncomm.total_exchange_value,
          combined_date_range |->
              [ min_year |-> min(comm.date_range.min_year, noncomm.date_range.min_year),
                max_year |-> max(comm.date_range.max_year, noncomm.date_range.max_year) ] ]
generateCombinedSummary(res) ==
    LET combined_summary ==
            [ commercial |-> IF truthy(res.commercial)
                             THEN Some(res.commercial[1].summary) ELSE None,
              non_commercial |-> IF truthy(res.non_commercial)
                                 THEN Some(res.non_commercial[1].summary) ELSE None ]
    IN  IF truthy(res.commercial) /\ truthy(res.non_commercial)
        THEN combined_summary @@ ("overall" :> overall(res))
        ELSE combined_summary


\* The parameter defaults of runFullPipeline and the arguments main() passes.
DefaultPolicy == [remove_aggregates |-> TRUE, remove_display |-> FALSE]
MainPolicy == [remove_aggregates |-> FALSE, remove_display |-> FALSE]

\* runFullPipeline is entered with the policy p.
Enter(how, p) ==
    /\ ppc = "idle"
    /\ entry = "none"
    /\ entry' = how
    /\ policy' = p
    /\ ppc' = "runCommercialCleaning"
    /\ UNCHANGED <<cleaner, frame, files, today, run, history, results, commercial_cleaner,
                   comm_success, noncomm_success, overall_success, combined, combined_error,
                   commercial_call, dashboard>>

\* runFullPipeline(remove_aggregates, remove_display) is called.
RunFullPipelineCall ==
    \E ra \in BOOLEAN, rd \in BOOLEAN :
        Enter("call", [remove_aggregates |-> ra, remove_display |-> rd])

\* runFullPipeline() is called without arguments.
RunFullPipelineDefault == Enter("default", DefaultPolicy)

\* pipeline.py is run as a script: main() calls runFullPipeline.
Main == Enter("main", MainPolicy)

\* pipeline.py is imported: main() is not called.
Import ==
    /\ ppc = "idle"
    /\ entry = "none"
    /\ entry' = "import"
    /\ UNCHANGED <<cleaner, frame, files, today, run, history, ppc, policy, results,
                   commercial_cleaner, comm_success, noncomm_success, overall_success,
                   combined, combined_error, commercial_call, dashboard>>

\* runCommercialCleaning: the commercial cleaner's whole run, then the
\* record in results; an exception of the cleaner escapes.
RunCommercialCleaning(dir) ==
    /\ ppc = "runCommercialCleaning"
    /\ LET o == CommercialRunCleaningPipeline(commercial_cleaner, dir,
                    policy.remove_aggregates, policy.remove_display, files, today)
       IN  /\ commercial_cleaner' = o.self
           /\ commercial_call' = Some([remove_aggregates |-> policy.remove_aggregates,
                                       remove_display |-> policy.remove_display,
                                       input |-> dir])
           /\ files' = o.files
           /\ IF o.raised
              THEN /\ ppc' = "raised"
                   /\ UNCHANGED <<results, comm_success>>
              ELSE /\ ppc' = "runNoncommercialCleaning"
                   /\ results' = [results EXCEPT !.commercial =
                          resultRecord(o.ret[1], "Commercial data cleaning failed")]
                   /\ comm_success' = Some(o.ret[1].success)
    /\ UNCHANGED <<cleaner, frame, today, run, history, policy, noncomm_success,
                   overall_success, combined, combined_error, entry, dashboard>>

\* runNoncommercialCleaning: the same for the non commercial cleaner.
RunNoncommercialCleaning(dir) ==
    /\ ppc = "runNoncommercialCleaning"
    /\ LET self == [data |-> data, raw_row_count |-> raw_row_count,
                    cleaned_row_count |-> cleaned_row_count]
           o == NoncommercialRunCleaningPipeline(self, dir,
                    policy.remove_aggregates, policy.remove_display, files, today)
       IN  /\ data' = o.self.data
           /\ raw_row_count' = o.self.raw_row_count
           /\ cleaned_row_count' = o.self.cleaned_row_count
           /\ files' = o.files
           /\ remove_aggregates' = policy.remove_aggregates
           /\ remove_display' = policy.remove_display
           /\ input' = dir
           /\ run' = run + 1
           /\ ret' = o.ret
           /\ pc' = IF o.raised THEN "raised" ELSE "returned"
           /\ IF o.raised
              THEN /\ ppc' = "raised"
                   /\ UNCHANGED <<results, noncomm_success>>
              ELSE /\ ppc' = "generatePipelineReport"
                   /\ results' = [results EXCEPT !.non_commercial =
                          resultRecord(o.ret[1], "Non commercial data cleaning failed")]
                   /\ noncomm_success' = Some(o.ret[1].success)
    /\ UNCHANGED <<today, loaded, null_removed, aggregates_removed, issues, ranges_ret,
                   warnings, stages, policy, commercial_cleaner, comm_success,
                   overall_success, combined, combined_error, module>>

\* generatePipelineReport (it only logs) and the return of runFullPipeline.
RunFullPipelineReturn_any ==
    /\ ppc = "generatePipelineReport"
    /\ ppc' = "returned"
    /\ overall_success' = Some(comm_success[1] \/ noncomm_success[1])
    /\ UNCHANGED <<cleaner, frame, files, today, run, history, policy, results,
                   commercial_cleaner, comm_success, noncomm_success, combined,
                   combined_error, module>>
RunFullPipelineReturn ==
    /\ ppc = "generatePipelineReport"
    /\ ppc' = "returned"
    /\ overall_success' = Some(comm_success[1] /\ noncomm_success[1])
    /\ UNCHANGED <<cleaner, frame, files, today, run, history, policy, results,
                   commercial_cleaner, comm_success, noncomm_success, combined,
                   combined_error, module>>

\* generateCombinedSummary, called by the pipeline's user once
\* runFullPipeline has returned or raised.
GenerateCombinedSummary ==
    /\ ppc \in {"returned", "raised"}
    /\ combined = None /\ combined_error = "none"
    /\ IF generateCombinedSummaryRaises(results)
       THEN combined_error' = "KeyError" /\ UNCHANGED combined
       ELSE combined' = Some(generateCombinedSummary(results)) /\ UNCHANGED combined_error
    /\ UNCHANGED <<cleaner, frame, files, today, run, history, ppc, policy, results,
                   commercial_cleaner, comm_success, noncomm_success, overall_success,
                   module>>

\* exportSummaryJson(summary): the summary is written under the day's name.
summaryPath(day) == <<"cleaning_summary", day>>
exportSummaryJson(summary, fs, day) == [fs EXCEPT ![summaryPath(day)] = Some(summary)]

\* exportSummaryJson, called by the pipeline's user with the summary
\* generateCombinedSummary returned.
ExportSummaryJson ==
    /\ ppc \in {"returned", "raised"}
    /\ combined # None
    /\ files[summaryPath(today)] = None
    /\ files' = exportSummaryJson(combined[1], files, today)
    /\ UNCHANGED <<cleaner, frame, today, run, history, orchestrator>>

\* ---------------------------------------------------- DashboardGenerator
\* The text to_csv writes for a cell and csv.DictReader reads back: an
\* Int64 as an integer literal ("2022"), a float with its decimal point
\* ("2.0", "2.5"), NaN / <NA> as the empty string.  A text is [t, v].
IntText(n) == [t |-> "int", v |-> n]
EmptyText == [t |-> "empty", v |-> 0]
formatCell(cell) ==
    CASE cell.k = "int" -> [t |-> "int", v |-> cell.v]
      [] cell.k = "num" -> [t |-> "float", v |-> cell.v]
      [] cell.k = "frac" -> [t |-> "fraction", v |-> cell.v]
      [] cell.k = "null" -> EmptyText
      [] OTHER -> [t |-> "text", v |-> 0]
formatCategory(x) == IF x = NaN THEN "" ELSE x

\* loadCsv: the rows of the file as dictionaries of strings.
loadCsv(file) ==
    [i \in DOMAIN file.rows |->
        [col \in DOMAIN file.rows[i] |->
            IF col \in {"year", "exchange_value"}
            THEN formatCell(file.rows[i][col])
            ELSE formatCategory(file.rows[i][col])]]

\* findLatestCsv: the last of the sorted names of a kind, the latest day's.
findLatestCsv(fs, kind) ==
    LET matches == {d \in Days : fs[<<kind, d>>] # None}
    IN  IF matches = {} THEN None ELSE Some(<<kind, SetMax(matches)>>)

\* r.get(key, default), and int() and float() of the string (or of the
\* default 0): int() takes an integer literal only, float() any number.
get(r, key, default) == IF key \in DOMAIN r THEN r[key] ELSE default
intRaises(text) == text.t # "int"
int(text) == text.v
floatRaises(text) == text.t \notin {"int", "float", "fraction"}
float(text) == IF text.t = "fraction" THEN FracCell(text.v) ELSE NumCell(text.v)
normalizeRaises(r) ==
    \/ intRaises(get(r, "year", IntText(0)))
    \/ floatRaises(get(r, "exchange_value", IntText(0)))

\* normalizeCommercial / normalizeNoncommercial: a row whose year or
\* exchange_value raises ValueError is skipped.
normalizeCommercial_with_area(rows) ==
    LET kept == SelectSeq(rows, LAMBDA r : ~normalizeRaises(r))
    IN  [i \in DOMAIN kept |->
            [ type |-> "commercial",
              year |-> int(get(kept[i], "year", IntText(0))),
              county |-> get(kept[i], "county", ""),
              island |-> get(kept[i], "area_id", ""),
              species_group |-> get(kept[i], "species_group", ""),
              ecosystem_type |-> get(kept[i], "ecosystem_type", ""),
              exchange_value |-> float(get(kept[i], "exchange_value", IntText(0))) ]]
normalizeCommercial(rows) ==
    LET kept == SelectSeq(rows, LAMBDA r : ~normalizeRaises(r))
    IN  [i \in DOMAIN kept |->
            [ type |-> "commercial",
              year |-> int(get(kept[i], "year", IntText(0))),
              county |-> get(kept[i], "county", ""),
              island |-> "",
              species_group |-> get(kept[i], "species_group", ""),
              ecosystem_type |-> get(kept[i], "ecosystem_type", ""),
              exchange_value |-> float(get(kept[i], "exchange_value", IntText(0))) ]]
normalizeNoncommercial_defaulting_year(rows) ==
    LET kept == SelectSeq(rows, LAMBDA r : ~floatRaises(get(r, "exchange_value", IntText(0))))
    IN  [i \in DOMAIN kept |->
            [ type |-> "noncommercial",
              year |-> IF intRaises(get(kept[i], "year", IntText(0))) THEN 0
                       ELSE int(get(kept[i], "year", IntText(0))),
              county |-> get(kept[i], "county", ""),
              island |-> get(kept[i], "island", ""),
              species_group |-> get(kept[i], "species_group", ""),
              ecosystem_type |-> get(kept[i], "ecosystem_type", ""),
              exchange_value |-> float(get(kept[i], "exchange_value", IntText(0))) ]]
normalizeNoncommercial(rows) ==
    LET kept == SelectSeq(rows, LAMBDA r : ~normalizeRaises(r))
    IN  [i \in DOMAIN kept |->
            [ type |-> "noncommercial",
              year |-> int(get(kept[i], "year", IntText(0))),
              county |-> get(kept[i], "county", ""),
              island |-> get(kept[i], "island", ""),
              species_group |-> get(kept[i], "species_group", ""),
              ecosystem_type |-> get(kept[i], "ecosystem_type", ""),
              exchange_value |-> float(get(kept[i], "exchange_value", IntText(0))) ]]

\* computeSummary: the totals and the record count of the stat cards
\* (exchange values in whole units).
computeSummary(commercial, noncommercial) ==
    [ comm_total |-> SumSeq([i \in DOMAIN commercial |-> commercial[i].exchange_value.v]),
      noncomm_total |-> SumSeq([i \in DOMAIN noncommercial |->
                                   noncommercial[i].exchange_value.v]),
      total_records |-> Len(commercial) + Len(noncommercial) ]

\* generate: the latest cleaned file of each kind is loaded and normalised;
\* without any row nothing is written and None returned, else the page is
\* written under the day's name.
generate(fs, day) ==
    LET comm_file == findLatestCsv(fs, "commercial")
        noncomm_file == findLatestCsv(fs, "noncommercial")
        commercial == IF comm_file # None
                      THEN normalizeCommercial(loadCsv(fs[comm_file[1]][1])) ELSE <<>>
        noncommercial == IF noncomm_file # None
                         THEN normalizeNoncommercial(loadCsv(fs[noncomm_file[1]][1])) ELSE <<>>
        output_path == <<"dashboard", day>>
        html == [ commercial |-> commercial, noncommercial |-> noncommercial,
                  summary |-> computeSummary(commercial, noncommercial) ]
    IN  IF commercial = <<>> /\ noncommercial = <<>>
        THEN [ commercial |-> commercial, noncommercial |-> noncommercial,
               ret |-> None, files |-> fs ]
        ELSE [ commercial |-> commercial, noncommercial |-> noncommercial,
               ret |-> Some(output_path),
               files |-> [fs EXCEPT ![output_path] = Some(html)] ]

\* The module-level DashboardGenerator(...).generate() of pipeline.py: it
\* runs when the module is imported, and when the module is run as a
\* script once main() has returned.
GenerateDashboard ==
    /\ dashboard = None
    /\ \/ entry = "import"
       \/ entry = "main" /\ ppc = "returned"
    /\ LET g == generate(files, today) IN
        /\ dashboard' = Some([commercial |-> g.commercial,
                              noncommercial |-> g.noncommercial, ret |-> g.ret])
        /\ files' = g.files
    /\ UNCHANGED <<cleaner, frame, today, run, history, ppc, policy, results,
                   commercial_cleaner, comm_success, noncomm_success, overall_success,
                   combined, combined_error, entry, commercial_call>>

CommercialInput ==
    /\ ppc = "runCommercialCleaning"
    /\ \/ \E n \in 0..MaxRowsPipeline : \E f \in [1..n -> SmallRows(CommercialContract)] :
            RunCommercialCleaning(
                Primary(Table(f, CommercialContract.required_columns)))
       \/ \E dir \in FailingInputs(CommercialContract) : RunCommercialCleaning(dir)

NoncommercialInput ==
    /\ ppc = "runNoncommercialCleaning"
    /\ \/ \E n \in 0..MaxRowsPipeline : \E f \in [1..n -> SmallRows(NonCommercialContract)] :
            RunNoncommercialCleaning(
                Primary(Table(f, NonCommercialContract.required_columns)))
       \/ \E dir \in FailingInputs(NonCommercialContract) : RunNoncommercialCleaning(dir)

\* Inputs with rollup rows.
CommercialRollupInput ==
    /\ ppc = "runCommercialCleaning"
    /\ \E n \in 0..MaxCommercialRows : \E f \in [1..n -> CommercialRows] :
          RunCommercialCleaning(Primary(Table(f, CommercialContract.required_columns)))
NoncommercialRollupInput ==
    /\ ppc = "runNoncommercialCleaning"
    /\ \E n \in 0..MaxSpeciesRows : \E f \in [1..n -> SpeciesRows] :
          RunNoncommercialCleaning(Primary(Table(f, NonCommercialContract.required_columns)))

NextPipeline ==
    \/ RunFullPipelineCall
    \/ RunFullPipelineDefault
    \/ Main
    \/ Import
    \/ CommercialInput
    \/ NoncommercialInput
    \/ RunFullPipelineReturn
    \/ GenerateCombinedSummary
    \/ ExportSummaryJson
    \/ GenerateDashboard

SpecPipeline == Init /\ [][NextPipeline]_vars

\* runFullPipeline on inputs with rollup rows.
NextAggregates ==
    \/ RunFullPipelineCall
    \/ RunFullPipelineDefault
    \/ CommercialRollupInput
    \/ NoncommercialRollupInput
    \/ RunFullPipelineReturn

SpecAggregates == Init /\ [][NextAggregates]_vars

\* =================================================================
\* Properties of one call of runCleaningPipeline (Spec), of repeated calls
\* (SpecRerun) and of the orchestrator (SpecPipeline).
\* =================================================================
Ran(stage) == \E i \in DOMAIN stages : stages[i] = stage
Completed == pc = "returned" /\ ret # None /\ ret[1].success
Exported == Ran("exportCleanedData")
OrZero(opt) == IF opt = None THEN 0 ELSE opt[1]
RequiredNonCommercial ==
    {"year", "island", "county", "species_group", "ecosystem_type", "exchange_value"}

\* The stage-by-stage run and the call as a whole agree.
StagesAgreeWithCall ==
    pc \in {"returned", "raised"} =>
        LET o == RunCleaningPipeline(C, NewCleaner, input, remove_aggregates,
                                     remove_display, NoFiles, today)
        IN  /\ o.self = [data |-> data, raw_row_count |-> raw_row_count,
                         cleaned_row_count |-> cleaned_row_count]
            /\ o.files = files
            /\ o.ret = ret
            /\ o.raised = (pc = "raised")

\* C1: in every completed run the summary's rows_removed is raw_row_count -
\* cleaned_row_count and equals the rows dropped by removeNullValues plus,
\* with remove_aggregates, those dropped by removeAggregateRows; at every
\* point of a run the table has the loaded rows less those two counts, so
\* no other stage changes the row count.
C1_RowsRemovedIsNullsPlusAggregates ==
    /\ (loaded # None /\ pc # "idle") =>
          Len(data[1].rows) =
              Len(loaded[1].rows) - OrZero(null_removed) - OrZero(aggregates_removed)
    /\ Completed =>
          LET summary == ret[1].summary[1] IN
          /\ summary.raw_row_count = Len(loaded[1].rows)
          /\ summary.cleaned_row_count = Len(files[ret[1].output_file[1]][1].rows)
          /\ summary.rows_removed = summary.raw_row_count - summary.cleaned_row_count
          /\ summary.rows_removed =
                null_removed[1] + (IF remove_aggregates THEN aggregates_removed[1] ELSE 0)
          /\ ~remove_aggregates => aggregates_removed = None
C1_Witness ==
    /\ Completed
    /\ remove_aggregates
    /\ null_removed[1] > 0
    /\ aggregates_removed[1] > 0
    /\ ret[1].summary[1].rows_removed = 2

\* C2: cleaned_row_count <= raw_row_count in every state of a cleaner,
\* also across repeated calls of runCleaningPipeline on the same cleaner.
C2_CleanedAtMostRaw == cleaned_row_count <= raw_row_count

\* C3: validateDataRanges leaves the table as it is (the same rows, the same
\* cells) and returns True, whatever negative values and out-of-range years
\* the table holds.
C3_RangesLeaveTableUnchanged ==
    [][pc = "validateDataRanges" => (data' = data /\ ranges_ret' = Some(TRUE))]_vars
C3_Witness ==
    /\ pc = "validateEcosystemTypes"
    /\ Len(issues) = 2
    /\ \E i \in DOMAIN data[1].rows :
          data[1].rows[i].exchange_value.v < 0 /\ data[1].rows[i].year = IntCell(2004)

\* C4: with remove_aggregates the exported table has no row whose
\* ecosystem_type is "All Ecosystems".
C4_NoAggregatesExported ==
    (Exported /\ remove_aggregates) =>
        LET exported == files[outputPath(C, today)][1] IN
        \A i \in DOMAIN exported.rows : exported.rows[i].ecosystem_type # "All Ecosystems"
C4_Witness ==
    /\ Completed
    /\ remove_aggregates
    /\ aggregates_removed[1] > 0
    /\ files[ret[1].output_file[1]][1].rows # <<>>

\* C5 as stated: without remove_aggregates every "All Ecosystems" row of the
\* loaded table is in the exported table.
IsExportedRow(r) ==
    LET exported == files[outputPath(C, today)][1] IN
    \E j \in DOMAIN data[1].rows :
        /\ data[1].rows[j].idx = r.idx
        /\ data[1].rows[j].ecosystem_type = r.ecosystem_type
        /\ j \in DOMAIN exported.rows
        /\ exported.rows[j] = to_csv([cols |-> {}, rows |-> <<data[1].rows[j]>>]).rows[1]
C5_EveryAggregateRowKept ==
    (Exported /\ ~remove_aggregates) =>
        \A i \in DOMAIN loaded[1].rows :
            loaded[1].rows[i].ecosystem_type = "All Ecosystems"
                => IsExportedRow(loaded[1].rows[i])
\* C5 as amended: without remove_aggregates every "All Ecosystems" row of
\* the loaded table whose exchange_value is a number is in the exported
\* table (a row whose exchange_value is null after coercion is dropped by
\* removeNullValues whatever the flag).
C5_AggregateRowsWithValueKept ==
    (Exported /\ ~remove_aggregates) =>
        \A i \in DOMAIN loaded[1].rows :
            (/\ loaded[1].rows[i].ecosystem_type = "All Ecosystems"
             /\ loaded[1].rows[i].exchange_value.k \in {"int", "num", "frac"})
                => IsExportedRow(loaded[1].rows[i])
C5_Witness ==
    /\ Completed
    /\ ~remove_aggregates
    /\ \E i \in DOMAIN loaded[1].rows :
          /\ loaded[1].rows[i].ecosystem_type = "All Ecosystems"
          /\ IsExportedRow(loaded[1].rows[i])
    /\ \E i \in DOMAIN loaded[1].rows :
          /\ loaded[1].rows[i].ecosystem_type = "All Ecosystems"
          /\ ~IsExportedRow(loaded[1].rows[i])

\* C6: a loaded table lacking a required column makes validateSchema fail:
\* the run returns (False, None, None) after loadData and validateSchema
\* alone and writes no file; a table with every required column passes
\* validateSchema with or without the display columns.
C6_SchemaGate ==
    (loaded # None /\ Ran("validateSchema")) =>
        IF RequiredNonCommercial \subseteq loaded[1].cols
        THEN ~(pc = "returned" /\ stages = <<"loadData", "validateSchema">>)
        ELSE /\ pc = "returned"
             /\ ret = Some([success |-> FALSE, output_file |-> None, summary |-> None])
             /\ stages = <<"loadData", "validateSchema">>
             /\ files = NoFiles
C6_Witness ==
    /\ pc = "returned"
    /\ loaded # None
    /\ "island" \notin loaded[1].cols
    /\ loaded[1].rows # <<>>
    /\ ret = Some(Failure)

\* C7: when no file matches either pattern, or the file found does not
\* parse, loadData fails: table and raw_row_count stay unset, the run
\* returns (False, None, None) after loadData alone, run once, and no file
\* is written.
NothingToLoad(dir) ==
    \/ dir.primary = <<>> /\ dir.fallback = <<>>
    \/ dir.primary # <<>> /\ ~dir.primary[1].ok
    \/ dir.primary = <<>> /\ dir.fallback # <<>> /\ ~dir.fallback[1].ok
C7_LoadFailureIsTerminal ==
    (Ran("loadData") /\ NothingToLoad(input)) =>
        /\ pc = "returned"
        /\ ret = Some([success |-> FALSE, output_file |-> None, summary |-> None])
        /\ data = None
        /\ raw_row_count = 0
        /\ stages = <<"loadData">>
        /\ run = 1
        /\ files = NoFiles
C7_Witness ==
    /\ pc = "returned"
    /\ input = Unparsable
    /\ data = None

\* ---------------------------------------------------------- orchestrator
SummaryCalled == combined # None \/ combined_error # "none"
IsSuccessRecord(r) ==
    /\ DOMAIN r = {"success", "output_file", "summary"}
    /\ r.success = TRUE
IsFailureRecord(r) ==
    /\ DOMAIN r = {"success", "error"}
    /\ r.success = FALSE

\* C8: when one dataset's cleaning has failed at load or schema, the other
\* cleaner is still run to completion, and each outcome is recorded in
\* results as a success record or a failure record.
C8_OtherCleanerRunsAndIsRecorded ==
    /\ (comm_success = Some(FALSE) /\ ppc # "runNoncommercialCleaning") =>
          /\ IsFailureRecord(results.commercial[1])
          /\ results.non_commercial # None
          /\ \/ IsSuccessRecord(results.non_commercial[1])
             \/ IsFailureRecord(results.non_commercial[1])
    /\ noncomm_success = Some(FALSE) =>
          /\ IsFailureRecord(results.non_commercial[1])
          /\ results.commercial # None
          /\ \/ IsSuccessRecord(results.commercial[1])
             \/ IsFailureRecord(results.commercial[1])

\* C9: when exactly one dataset's cleaning has failed, generateCombinedSummary
\* gives a summary whose field for the failed dataset is None, whose field
\* for the other is that dataset's summary, and which has no 'overall' key.
C9_OneFailedGivesNullFieldAndNoOverall ==
    (/\ SummaryCalled
     /\ comm_success # None /\ noncomm_success # None
     /\ comm_success # noncomm_success) =>
        /\ combined # None
        /\ "overall" \notin DOMAIN combined[1]
        /\ IF comm_success[1]
           THEN /\ combined[1].commercial = Some(results.commercial[1].summary)
                /\ combined[1].non_commercial = None
           ELSE /\ combined[1].commercial = None
                /\ combined[1].non_commercial = Some(results.non_commercial[1].summary)

\* C10: when both datasets succeeded, overall.total_records is the sum of
\* the two cleaned_row_counts, overall.total_exchange_value the sum of the
\* two totals, and overall.combined_date_range the least of the two
\* min_years and the greatest of the two max_years.
C10_OverallTotals ==
    (SummaryCalled /\ comm_success = Some(TRUE) /\ noncomm_success = Some(TRUE)) =>
        /\ combined # None
        /\ "overall" \in DOMAIN combined[1]
        /\ LET comm == results.commercial[1].summary
               noncomm == results.non_commercial[1].summary
               o == combined[1].overall
           IN  /\ comm.cleaned_row_count = commercial_cleaner.cleaned_row_count
               /\ noncomm.cleaned_row_count = cleaned_row_count
               /\ o.total_records = commercial_cleaner.cleaned_row_count + cleaned_row_count
               /\ o.total_exchange_value =
                     comm.total_exchange_value + noncomm.total_exchange_value
               /\ o.combined_date_range.min_year =
                     SetMin({comm.date_range.min_year, noncomm.date_range.min_year})
               /\ o.combined_date_range.max_year =
                     SetMax({comm.date_range.max_year, noncomm.date_range.max_year})
C10_Witness ==
    /\ combined # None
    /\ comm_success = Some(TRUE) /\ noncomm_success = Some(TRUE)
    /\ results.commercial[1].summary.date_range.min_year = 2022
    /\ results.non_commercial[1].summary.date_range = [min_year |-> 2004, max_year |-> 2022]
    /\ combined[1].overall.total_records = 3
    /\ combined[1].overall.total_exchange_value = 6
    /\ combined[1].overall.combined_date_range = [min_year |-> 2004, max_year |-> 2022]

\* C11: the value runFullPipeline returns is true if and only if both the
\* commercial and the non commercial cleaning succeeded, as recorded in
\* results and as the non commercial cleaner returned.
C11_OverallSuccessIsAnd ==
    ppc = "returned" =>
        /\ overall_success # None
        /\ results.commercial # None /\ results.non_commercial # None
        /\ overall_success[1] <=>
              (results.commercial[1].success /\ results.non_commercial[1].success)
        /\ results.non_commercial[1].success = ret[1].success
C11_Witness ==
    /\ ppc = "returned"
    /\ overall_success = Some(FALSE)
    /\ results.commercial[1].success
    /\ ~results.non_commercial[1].success

\* C12: once runFullPipeline has returned, the day's cleaning_summary file
\* is in the output directory and holds the combined summary of results.
C12_SummaryJsonWritten ==
    ppc = "returned" =>
        /\ files[summaryPath(today)] # None
        /\ ~generateCombinedSummaryRaises(results)
        /\ files[summaryPath(today)] = Some(generateCombinedSummary(results))

\* ------------------------------------------------- the stages of one call
StageOrder ==
    << "loadData", "validateSchema", "validateDataTypes", "validateDataRanges",
       "validateEcosystemTypes", "validateSpeciesGroups", "validateIslands",
       "validateCounties", "removeNullValues", "removeAggregateRows",
       "removeDisplayColumns", "exportCleanedData", "generateSummaryStatistics" >>
Terminal == pc \in {"returned", "raised"}
LastStage == stages[Len(stages)]
PassedSchema == loaded # None /\ RequiredNonCommercial \subseteq loaded[1].cols

\* C13: a call whose table has passed load and schema validation runs every
\* remaining stage and returns (True, output_file, summary), whatever the
\* cells hold.
C13_AlwaysSucceedsAfterSchema ==
    (PassedSchema /\ Terminal) =>
        /\ pc = "returned"
        /\ stages = StageOrder
        /\ ret # None
        /\ ret[1].success /\ ret[1].output_file # None /\ ret[1].summary # None

\* C14: a call whose table holds a categorical value outside the expected
\* vocabulary (and whose cleaned table has a row with a year) succeeds, and
\* every loaded row with a non-null exchange_value that is not a rollup row
\* is in the exported table.
HasMismatch(rows) ==
    \E i \in DOMAIN rows :
        \/ rows[i].ecosystem_type \notin C.expected_ecosystems
        \/ rows[i].species_group \notin C.expected_species
        \/ rows[i].island \notin C.expected_regions
        \/ rows[i].county \notin C.expected_counties
C14_CategoricalMismatchIsAdvisory ==
    (/\ PassedSchema
     /\ HasMismatch(loaded[1].rows)
     /\ Terminal
     /\ Ran("validateCounties")
     /\ yearsOf(data[1].rows) # {}) =>
        /\ Completed
        /\ \A i \in DOMAIN loaded[1].rows :
              (/\ loaded[1].rows[i].exchange_value.k \in {"int", "num", "frac"}
               /\ loaded[1].rows[i].ecosystem_type # "All Ecosystems")
                  => IsExportedRow(loaded[1].rows[i])

\* C15: on the table validateDataTypes has coerced, validateDataTypes does
\* not raise and gives the same table: every cell of year and
\* exchange_value is unchanged, and so are the two null counts.
NullCount(rows, col) == Cardinality({i \in DOMAIN rows : ~notna(rows[i][col])})
C15_TypesIdempotent ==
    pc = "validateDataRanges" =>
        LET again == validateDataTypes(data[1].rows) IN
        /\ ~validateDataTypesRaises(data[1].rows)
        /\ again = data[1].rows
        /\ NullCount(again, "year") = NullCount(data[1].rows, "year")
        /\ NullCount(again, "exchange_value") = NullCount(data[1].rows, "exchange_value")
C15_Witness ==
    /\ pc = "validateDataRanges"
    /\ \E i \in DOMAIN data[1].rows :
          /\ loaded[1].rows[i].year = TextCell
          /\ data[1].rows[i].year = NullCell
          /\ data[1].rows[i].exchange_value = NumCell(2)
    /\ \E i \in DOMAIN data[1].rows :
          /\ data[1].rows[i].year = IntCell(2022)
          /\ loaded[1].rows[i].exchange_value = TextCell
          /\ data[1].rows[i].exchange_value = NullCell

\* C16: validateDataTypes never raises, whatever the cells of year and
\* exchange_value hold.
C16_TypesNeverRaise ==
    ~(pc = "raised" /\ LastStage = "validateDataTypes")

\* C17: the stages of a call run in the one order loadData, validateSchema,
\* validateDataTypes, validateDataRanges, the four categorical validators,
\* removeNullValues, removeAggregateRows, removeDisplayColumns,
\* exportCleanedData, generateSummaryStatistics, each at most once and after
\* all the earlier ones; a file is written only after the removal stages and
\* a summary returned only after the export.
C17_StageOrder ==
    /\ Len(stages) <= Len(StageOrder)
    /\ \A i \in DOMAIN stages : stages[i] = StageOrder[i]
    /\ (pc \notin {"idle", "returned", "raised"}) => pc = StageOrder[Len(stages) + 1]
    /\ files # NoFiles =>
          Ran("removeNullValues") /\ Ran("removeAggregateRows") /\ Ran("removeDisplayColumns")
    /\ (ret # None /\ ret[1].summary # None) => Exported
C17_Witness ==
    /\ Completed
    /\ stages = StageOrder
    /\ files # NoFiles

\* ------------------------------------------------------ the exported file
NonCommercialFile(day) == <<"noncommercial", day>>

C20_ImmutableAfterExport ==
    /\ [](Completed =>
            LET summary == ret[1].summary[1] IN
            /\ summary.cleaned_row_count = cleaned_row_count
            /\ summary.rows_removed = raw_row_count - cleaned_row_count
            /\ cleaned_row_count = Len(data[1].rows)
            /\ files[ret[1].output_file[1]] = Some(to_csv(data[1])))
    /\ [][Exported => (data' = data /\ cleaned_row_count' = cleaned_row_count
                                   /\ files' = files)]_vars
C20_Witness ==
    /\ Completed
    /\ cleaned_row_count = 2
    /\ raw_row_count = 3
    /\ \E i \in DOMAIN data[1].rows : data[1].rows[i].year = NullCell

\* ------------------------------------------------- policy and exceptions
\* C21: a pipeline started without explicit policy values, by
\* runFullPipeline() or by main(), runs with remove_aggregates = True and
\* remove_display = False, and both cleaners are called with that pair.
C21_DefaultPolicyEverywhere ==
    entry \in {"default", "main"} =>
        /\ policy = [remove_aggregates |-> TRUE, remove_display |-> FALSE]
        /\ commercial_call # None =>
              /\ commercial_call[1].remove_aggregates = TRUE
              /\ commercial_call[1].remove_display = FALSE
        /\ run > 0 => (remove_aggregates = TRUE /\ remove_display = FALSE)

\* C22: runFullPipeline never ends by an exception: once the commercial
\* cleaner has returned, the non commercial cleaner's failure does not
\* escape, and after the two cleaners both entries of results are records
\* with a success flag and the value returned is a boolean.
C22_OrchestratorNeverThrows ==
    /\ comm_success # None => ppc # "raised"
    /\ ppc = "returned" =>
          /\ overall_success \in {Some(TRUE), Some(FALSE)}
          /\ results.commercial # None /\ results.non_commercial # None
          /\ "success" \in DOMAIN results.commercial[1]
          /\ "success" \in DOMAIN results.non_commercial[1]

\* ----------------------------------------------------------- rollup rows
Count(rows, P(_)) == Cardinality({i \in DOMAIN rows : P(rows[i])})
HasValue(r) == r.exchange_value.k \in {"int", "num", "frac"}
InputRows(dir) == dir.primary[1].table.rows

\* C23: a commercial run with remove_aggregates on a table of n rows, k of
\* them with a null exchange_value and m of them "All Species" rows with a
\* value (and e "All Ecosystems" rows with a value not counted in m, none
\* in the claim's table), ends with cleaned_row_count = n - k - m - e and
\* rows_removed = k + m + e; a non commercial run removes no row for its
\* species_group: every "All Species" row is in the exported file.
C23_AggregateRemovalByKind ==
    /\ (/\ results.commercial # None
        /\ results.commercial[1].success
        /\ commercial_call[1].remove_aggregates) =>
          LET rows == InputRows(commercial_call[1].input)
              n == Len(rows)
              k == Count(rows, LAMBDA r : ~HasValue(r))
              m == Count(rows, LAMBDA r : /\ HasValue(r)
                                          /\ r.ecosystem_type # "All Ecosystems"
                                          /\ r.species_group = "All Species")
              e == Count(rows, LAMBDA r : HasValue(r) /\ r.ecosystem_type = "All Ecosystems")
              summary == results.commercial[1].summary
          IN  /\ summary.cleaned_row_count = n - k - m - e
              /\ summary.rows_removed = k + m + e
              /\ commercial_cleaner.cleaned_row_count = n - k - m - e
              /\ Len(files[results.commercial[1].output_file][1].rows) = n - k - m - e
    /\ (results.non_commercial # None /\ results.non_commercial[1].success) =>
          LET rows == InputRows(input)
              exported == files[results.non_commercial[1].output_file][1].rows
          IN  /\ Count(exported, LAMBDA r : r.species_group = "All Species")
                    = Count(rows, LAMBDA r : r.species_group = "All Species")
              /\ results.non_commercial[1].summary.cleaned_row_count = Len(rows)
C23_Witness ==
    /\ ppc = "returned"
    /\ policy = DefaultPolicy
    /\ results.commercial[1].success
    /\ Len(InputRows(commercial_call[1].input)) = 3
    /\ Count(InputRows(commercial_call[1].input), LAMBDA r : ~HasValue(r)) = 1
    /\ Count(InputRows(commercial_call[1].input),
             LAMBDA r : HasValue(r) /\ r.species_group = "All Species") = 1
    /\ results.commercial[1].summary.cleaned_row_count = 1
    /\ results.commercial[1].summary.rows_removed = 2
    /\ results.non_commercial[1].success
    /\ Count(files[results.non_commercial[1].output_file][1].rows,
             LAMBDA r : r.species_group = "All Species") = 1

\* ------------------------------------------------------------ downstream
NormalisedFields ==
    {"type", "year", "county", "island", "species_group", "ecosystem_type", "exchange_value"}
\* The rows of the latest cleaned file of a kind, as written.
LatestRows(kind) ==
    LET days == {d \in Days : files[<<kind, d>>] # None}
    IN  IF days = {} THEN <<>>
        ELSE files[<<kind, CHOOSE d \in days : \A x \in days : x <= d>>][1].rows
\* The positions of the written rows that normalisation keeps: the year
\* is written as an integer literal and the exchange value as a number.
KeptPositions(rows) ==
    {j \in DOMAIN rows : rows[j].year.k = "int" /\ rows[j].exchange_value.k # "null"
                                                /\ rows[j].exchange_value.k # "text"}
Nth(S, i) == CHOOSE j \in S : Cardinality({x \in S : x < j}) = i - 1

\* C24: every normalised row has exactly the fields type, year, county,
\* island, species_group, ecosystem_type and exchange_value; a commercial
\* row has type "commercial" and the empty island, a non commercial row
\* type "noncommercial" and the island of its row of the cleaned file.
C24_NormalisedProjection ==
    dashboard # None =>
        /\ \A i \in DOMAIN dashboard[1].commercial :
              LET r == dashboard[1].commercial[i] IN
              /\ DOMAIN r = NormalisedFields
              /\ r.type = "commercial"
              /\ r.island = ""
        /\ \A i \in DOMAIN dashboard[1].noncommercial :
              LET r == dashboard[1].noncommercial[i]
                  rows == LatestRows("noncommercial")
              IN  /\ DOMAIN r = NormalisedFields
                  /\ r.type = "noncommercial"
                  /\ \E j \in DOMAIN rows :
                        /\ r.island = rows[j].island
                        /\ r.year = rows[j].year.v
                        /\ r.county = rows[j].county
C24_Witness ==
    /\ dashboard # None
    /\ dashboard[1].ret = Some(<<"dashboard", today>>)
    /\ \E i \in DOMAIN dashboard[1].commercial :
          /\ dashboard[1].commercial[i].island = ""
          /\ LatestRows("commercial")[1].area_id = "A100"
    /\ \E i \in DOMAIN dashboard[1].noncommercial :
          dashboard[1].noncommercial[i].island = "Oahu"

\* C30: normalisation drops exactly the rows of the cleaned file whose year
\* is not an integer literal (the empty cell of a null year) or whose
\* exchange_value is not a number, and keeps the others in order; the
\* number of normalised rows is at most the cleaner's cleaned_row_count.
C30_NormalisationDropsUnparsableRows ==
    dashboard # None =>
        /\ LET rows == LatestRows("noncommercial")
               kept == KeptPositions(rows)
               normalised == dashboard[1].noncommercial
           IN  /\ Len(normalised) = Cardinality(kept)
               /\ \A i \in DOMAIN normalised :
                     /\ normalised[i].year = rows[Nth(kept, i)].year.v
                     /\ normalised[i].exchange_value.v = rows[Nth(kept, i)].exchange_value.v
                     /\ normalised[i].ecosystem_type = rows[Nth(kept, i)].ecosystem_type
               /\ Len(normalised) <= cleaned_row_count
        /\ LET rows == LatestRows("commercial")
               kept == KeptPositions(rows)
               normalised == dashboard[1].commercial
           IN  /\ Len(normalised) = Cardinality(kept)
               /\ Len(normalised) <= commercial_cleaner.cleaned_row_count
C30_Witness ==
    /\ dashboard # None
    /\ cleaned_row_count = 2
    /\ Len(dashboard[1].noncommercial) = 1
    /\ LatestRows("noncommercial")[1].year = NullCell
    /\ dashboard[1].noncommercial[1].year = 2004

\* ------------------------------------------------------ rows and ranges
\* C25: removeNullValues keeps exactly the rows whose exchange_value is not
\* null, in their order and unchanged; from then on no row of the table,
\* and no row of the exported file, has a null exchange_value.
C25_NullValuesRemovedInOrder ==
    /\ [](Ran("removeNullValues") =>
            \A i \in DOMAIN data[1].rows : data[1].rows[i].exchange_value.k # "null")
    /\ [](Exported =>
            \A i \in DOMAIN files[outputPath(C, today)][1].rows :
                files[outputPath(C, today)][1].rows[i].exchange_value.k # "null")
    /\ [][pc = "removeNullValues" =>
            LET before == data[1].rows
                after == data'[1].rows
            IN  /\ \A i \in DOMAIN after : after[i] \in Range(before)
                /\ \A i \in DOMAIN before :
                      before[i].exchange_value.k # "null" => before[i] \in Range(after)
                /\ \A i, j \in DOMAIN after : i < j => after[i].idx < after[j].idx
                /\ data'[1].cols = data[1].cols]_vars
C25_Witness ==
    /\ pc = "removeAggregateRows"
    /\ null_removed = Some(1)
    /\ Len(data[1].rows) = 2
    /\ data[1].rows[1].idx = 0
    /\ data[1].rows[2].idx = 2
    /\ data[1].rows[1] # data[1].rows[2]

\* C27: validateDataRanges records the year issue exactly when some year
\* is a number below Config.NONCOMMERCIAL_MIN_YEAR or above
\* Config.NONCOMMERCIAL_MAX_YEAR (the two bounds themselves pass), listing
\* those years, and the negative-value issue exactly when some
\* exchange_value is a number below 0, with their count.
C27_RangeIssues ==
    pc = "validateEcosystemTypes" =>
        LET rows == data[1].rows
            bad_years == {rows[i].year.v : i \in {j \in DOMAIN rows :
                            /\ rows[j].year.k = "int"
                            /\ \/ rows[j].year.v < NONCOMMERCIAL_MIN_YEAR
                               \/ rows[j].year.v > NONCOMMERCIAL_MAX_YEAR}}
            negatives == {i \in DOMAIN rows : /\ rows[i].exchange_value.k \in {"int", "num"}
                                              /\ rows[i].exchange_value.v < 0}
            year_issues == {i \in DOMAIN issues : issues[i].issue = "years outside expected range"}
            value_issues == {i \in DOMAIN issues : issues[i].issue = "negative exchange values"}
        IN  /\ (year_issues # {}) <=> (bad_years # {})
            /\ \A i \in year_issues : issues[i].years = bad_years
            /\ (value_issues # {}) <=> (negatives # {})
            /\ \A i \in value_issues : issues[i].n = Cardinality(negatives)
            /\ Cardinality(year_issues) <= 1 /\ Cardinality(value_issues) <= 1
C27_Witness ==
    /\ pc = "validateEcosystemTypes"
    /\ Len(data[1].rows) = 2
    /\ data[1].rows[1].year = IntCell(2005) /\ data[1].rows[1].exchange_value = NumCell(0)
    /\ data[1].rows[2].year = IntCell(2022)
    /\ issues = <<>>

\* C29: no stage removes a row for its year: a loaded row whose year is
\* null after coercion or out of range, whose exchange_value is a number
\* and which is not a rollup row, is in the exported file with the coerced
\* year, null included.
C29_NoRowRemovedForYear ==
    Exported =>
        LET exported == files[outputPath(C, today)][1].rows IN
        \A i \in DOMAIN loaded[1].rows :
            LET r == loaded[1].rows[i] IN
            (/\ r.exchange_value.k \in {"int", "num", "frac"}
             /\ r.ecosystem_type # "All Ecosystems"
             /\ \/ r.year.k = "text"
                \/ r.year.k = "int" /\ (r.year.v < 2005 \/ r.year.v > 2022)) =>
                \E j \in DOMAIN exported :
                    /\ data[1].rows[j].idx = r.idx
                    /\ exported[j].year = (IF r.year.k = "text" THEN NullCell ELSE r.year)
                    /\ exported[j].exchange_value = r.exchange_value
C29_Witness ==
    /\ Completed
    /\ Len(files[outputPath(C, today)][1].rows) = 2
    /\ \E j \in DOMAIN data[1].rows :
          /\ loaded[1].rows[data[1].rows[j].idx + 1].year = TextCell
          /\ files[outputPath(C, today)][1].rows[j].year = NullCell
    /\ \E j \in DOMAIN data[1].rows :
          files[outputPath(C, today)][1].rows[j].year = IntCell(2004)

\* ------------------------------------------------- order and entry point
\* What the two cleaner calls of runFullPipeline leave when they are made
\* in the other order, the non commercial cleaner first: an exception of
\* the first call ends runFullPipeline before the second.
OtherOrder(comm_dir, noncomm_dir, p, fs, day) ==
    LET n == NoncommercialRunCleaningPipeline(NewCleaner, noncomm_dir, p.remove_aggregates,
                                              p.remove_display, fs, day)
        c == CommercialRunCleaningPipeline(NewCleaner, comm_dir, p.remove_aggregates,
                                           p.remove_display, n.files, day)
    IN  IF n.raised
        THEN [ results |-> [commercial |-> None, non_commercial |-> None],
               files |-> n.files ]
        ELSE [ results |->
                 [ commercial |-> IF c.raised THEN None
                                  ELSE resultRecord(c.ret[1], "Commercial data cleaning failed"),
                   non_commercial |->
                       resultRecord(n.ret[1], "Non commercial data cleaning failed") ],
               files |-> c.files ]

\* C26: the two cleaners run in the other order leave the same records in
\* results and the same exported files as runFullPipeline leaves (stated
\* for the runs whose commercial cleaner has returned).
C26_OrderIndependent ==
    (comm_success # None /\ ppc \in {"returned", "raised"}) =>
        LET o == OtherOrder(commercial_call[1].input, input, policy, NoFiles, today) IN
        /\ results = o.results
        /\ \A kind \in {"commercial", "noncommercial"} :
              files[<<kind, today>>] = o.files[<<kind, today>>]

\* C28: DashboardGenerator.generate is called only once main() has run to
\* completion in the same process.
C28_DashboardOnlyAfterMain ==
    dashboard # None => (entry = "main" /\ ppc = "returned")

====
